---- MODULE Spec2Model ----
(***************************************************************************)
(* Model of src/main.rs: an actix-web service that pages through the       *)
(* current month's bank transactions and shows them as a budget            *)
(* (/budget), an expense summary (/expenses) or an account listing         *)
(* (/balances).                                                            *)
(*                                                                         *)
(* Strings the code inspects (descriptions, formatted dates) are sequences *)
(* of one-character strings; other strings are opaque.  Amounts (f64 in    *)
(* the code) are exact integers counting cents.  Option<T> is a sequence:  *)
(* <<>> is None, <<x>> is Some(x).                                         *)
(***************************************************************************)
EXTENDS Integers, Sequences, FiniteSets, TLC

VARIABLES
    route,               \* which handler of main() serves the request
    pc,                  \* position of the handler
    now,                 \* Utc::now() as <<year, month>>
    start_date,          \* formatted start of the window
    end_date,            \* formatted end of the window
    account_id,          \* get_balances: the account_id query parameter
    next_page_url,       \* Option<String>: the page cursor
    response,            \* the response to the request in flight
    transactions,        \* the Vec each handler accumulates
    total_expenses,      \* get_expenses accumulator
    total_incoming,      \* get_expenses accumulator
    transactions_result, \* budget_page: what fetch_transactions returned
    budget_categories,   \* categorize_transactions: the working catalog
    idx,                 \* categorize_transactions: transactions consumed
    category,            \* categorize_transactions: last classified name
    http,                \* the HttpResponse the handler produced
    requests,            \* history: the URLs requested, in order
    outcomes,            \* history: what kind of response each request got
    served,              \* history: the items of the data arrays received,
                         \* in order
    env,                 \* two requests: API_KEY in the process environment
    reqs                 \* two requests: the locals of each budget_page call

\* the variables of a single request
singleVars == <<route, pc, now, start_date, end_date, account_id,
                next_page_url, response, transactions, total_expenses,
                total_incoming, transactions_result, budget_categories, idx,
                category, http, requests, outcomes, served>>

vars == <<route, pc, now, start_date, end_date, account_id, next_page_url,
          response, transactions, total_expenses, total_incoming,
          transactions_result, budget_categories, idx, category, http,
          requests, outcomes, served, env, reqs>>

fetchVars == <<now, start_date, end_date, account_id, next_page_url, response,
               total_expenses, total_incoming, transactions_result,
               requests, outcomes, served>>

-----------------------------------------------------------------------------
(* Bounds of the model *)

\* longest input of categorize_transactions explored from a free input
MaxTxns == 3
\* number of fragments joined into a description
MaxFrags == 2
\* most items the server hands out during one request
MaxItems == 3
\* most page requests of one fetch
MaxRequests == 3
\* years of `now` explored: FirstYear .. FirstYear + YearSpan
YearSpan == 3
\* longest input of categorize_transactions explored from a free catalog
MaxCatalogTxns == 2

-----------------------------------------------------------------------------
(* Generic helpers *)

None == <<>>
Some(x) == <<x>>
UnwrapOr(opt, d) == IF opt = None THEN d ELSE opt[1]

Abs(x) == IF x < 0 THEN -x ELSE x

RECURSIVE Concat(_)
Concat(ss) == IF ss = <<>> THEN <<>> ELSE Head(ss) \o Concat(Tail(ss))

RECURSIVE SeqsUpTo(_, _)
SeqsUpTo(S, n) ==
    IF n = 0 THEN {<<>>}
    ELSE LET shorter == SeqsUpTo(S, n - 1)
         IN  shorter \cup {Append(s, x) : s \in {q \in shorter : Len(q) = n - 1}, x \in S}

RECURSIVE SumSeq(_)
SumSeq(s) == IF s = <<>> THEN 0 ELSE Head(s) + SumSeq(Tail(s))

Count(s, x) == Cardinality({i \in 1..Len(s) : s[i] = x})

-----------------------------------------------------------------------------
(* str::to_lowercase and str::contains on ASCII text *)

Upper == <<"A","B","C","D","E","F","G","H","I","J","K","L","M",
           "N","O","P","Q","R","S","T","U","V","W","X","Y","Z">>
Lower == <<"a","b","c","d","e","f","g","h","i","j","k","l","m",
           "n","o","p","q","r","s","t","u","v","w","x","y","z">>

\* the characters descriptions are made of
Chars == {Upper[i] : i \in 1..Len(Upper)} \cup {Lower[i] : i \in 1..Len(Lower)} \cup {" "}

\* char::to_lowercase, as a table
LowerChar ==
    [c \in Chars |->
        IF \E i \in 1..Len(Upper) : Upper[i] = c
        THEN Lower[CHOOSE i \in 1..Len(Upper) : Upper[i] = c]
        ELSE c]

to_lowercase(s) == [i \in 1..Len(s) |-> LowerChar[s[i]]]

contains(s, k) ==
    \E i \in 0..(Len(s) - Len(k)) : SubSeq(s, i + 1, i + Len(k)) = k

-----------------------------------------------------------------------------
(* The keywords of categorize_transactions *)

kw_woolworths  == <<"w","o","o","l","w","o","r","t","h","s">>
kw_coles       == <<"c","o","l","e","s">>
kw_aldi        == <<"a","l","d","i">>
kw_uber        == <<"u","b","e","r">>
kw_lyft        == <<"l","y","f","t">>
kw_bus         == <<"b","u","s">>
kw_train       == <<"t","r","a","i","n">>
kw_netflix     == <<"n","e","t","f","l","i","x">>
kw_spotify     == <<"s","p","o","t","i","f","y">>
kw_cinema      == <<"c","i","n","e","m","a">>
kw_electricity == <<"e","l","e","c","t","r","i","c","i","t","y">>
kw_water       == <<"w","a","t","e","r">>
kw_internet    == <<"i","n","t","e","r","n","e","t">>
kw_phone       == <<"p","h","o","n","e">>
kw_restaurant  == <<"r","e","s","t","a","u","r","a","n","t">>
kw_cafe        == <<"c","a","f","e">>
kw_bar         == <<"b","a","r">>
kw_mcdonalds   == <<"m","c","d","o","n","a","l","d","s">>
kw_kfc         == <<"k","f","c">>

\* A variant of the classification that tests the Dining Out keywords
\* before the Transportation ones.
CategoryForDiningFirst(description) ==
    LET description_lower == to_lowercase(description) IN
    IF contains(description_lower, kw_woolworths)
       \/ contains(description_lower, kw_coles)
       \/ contains(description_lower, kw_aldi)
    THEN "Groceries"
    ELSE IF contains(description_lower, kw_restaurant)
       \/ contains(description_lower, kw_cafe)
       \/ contains(description_lower, kw_bar)
       \/ contains(description_lower, kw_mcdonalds)
       \/ contains(description_lower, kw_kfc)
    THEN "Dining Out"
    ELSE IF contains(description_lower, kw_uber)
       \/ contains(description_lower, kw_lyft)
       \/ contains(description_lower, kw_bus)
       \/ contains(description_lower, kw_train)
    THEN "Transportation"
    ELSE IF contains(description_lower, kw_netflix)
       \/ contains(description_lower, kw_spotify)
       \/ contains(description_lower, kw_cinema)
    THEN "Entertainment"
    ELSE IF contains(description_lower, kw_electricity)
       \/ contains(description_lower, kw_water)
       \/ contains(description_lower, kw_internet)
       \/ contains(description_lower, kw_phone)
    THEN "Utilities"
    ELSE "Other"

\* The if / else-if chain that picks `category` for one description.
CategoryFor(description) ==
    LET description_lower == to_lowercase(description) IN
    IF contains(description_lower, kw_woolworths)
       \/ contains(description_lower, kw_coles)
       \/ contains(description_lower, kw_aldi)
    THEN "Groceries"
    ELSE IF contains(description_lower, kw_uber)
       \/ contains(description_lower, kw_lyft)
       \/ contains(description_lower, kw_bus)
       \/ contains(description_lower, kw_train)
    THEN "Transportation"
    ELSE IF contains(description_lower, kw_netflix)
       \/ contains(description_lower, kw_spotify)
       \/ contains(description_lower, kw_cinema)
    THEN "Entertainment"
    ELSE IF contains(description_lower, kw_electricity)
       \/ contains(description_lower, kw_water)
       \/ contains(description_lower, kw_internet)
       \/ contains(description_lower, kw_phone)
    THEN "Utilities"
    ELSE IF contains(description_lower, kw_restaurant)
       \/ contains(description_lower, kw_cafe)
       \/ contains(description_lower, kw_bar)
       \/ contains(description_lower, kw_mcdonalds)
       \/ contains(description_lower, kw_kfc)
    THEN "Dining Out"
    ELSE "Other"

-----------------------------------------------------------------------------
(* The catalog and the loop body of categorize_transactions *)

BudgetCategory(name, allocated_amount, spent_amount, txns) ==
    [name |-> name, allocated_amount |-> allocated_amount,
     spent_amount |-> spent_amount, transactions |-> txns]

\* allocated amounts in cents
get_budget_categories ==
    << BudgetCategory("Groceries", 50000, 0, <<>>),
       BudgetCategory("Transportation", 20000, 0, <<>>),
       BudgetCategory("Entertainment", 15000, 0, <<>>),
       BudgetCategory("Utilities", 30000, 0, <<>>),
       BudgetCategory("Dining Out", 25000, 0, <<>>) >>

\* iter_mut().find(|c| c.name == name): the index of the first match, 0 if none
Find(cats, name) ==
    IF \E i \in 1..Len(cats) : cats[i].name = name
    THEN CHOOSE i \in 1..Len(cats) :
            /\ cats[i].name = name
            /\ \A j \in 1..(i - 1) : cats[j].name # name
    ELSE 0

\* spent_amount += amount.abs(); transactions.push(transaction)
AddTo(cats, i, transaction) ==
    [cats EXCEPT ![i] = [@ EXCEPT
        !.spent_amount = @ + Abs(transaction.amount),
        !.transactions = Append(@, transaction)]]

\* A variant that pushes a new "Other" category for every unmatched
\* transaction instead of looking for the one already there.
CategorizeOneAlwaysCreate(cats, transaction) ==
    LET cat == CategoryFor(transaction.description)
        i   == Find(cats, cat)
    IN  IF i # 0 /\ cat # "Other"
        THEN AddTo(cats, i, transaction)
        ELSE Append(cats, BudgetCategory("Other", 0, Abs(transaction.amount),
                                         <<transaction>>))

\* A variant that adds the signed amount instead of its absolute value.
CategorizeOneSigned(cats, transaction) ==
    LET cat == CategoryFor(transaction.description)
        i   == Find(cats, cat)
        o   == Find(cats, "Other")
    IN  IF i # 0
        THEN [cats EXCEPT ![i] = [@ EXCEPT
                !.spent_amount = @ + transaction.amount,
                !.transactions = Append(@, transaction)]]
        ELSE IF o # 0
        THEN AddTo(cats, o, transaction)
        ELSE Append(cats, BudgetCategory("Other", 0, Abs(transaction.amount),
                                         <<transaction>>))

\* A variant that, on creating "Other", forgets to list the transaction.
CategorizeOneDropFirst(cats, transaction) ==
    LET cat == CategoryFor(transaction.description)
        i   == Find(cats, cat)
        o   == Find(cats, "Other")
    IN  IF i # 0
        THEN AddTo(cats, i, transaction)
        ELSE IF o # 0
        THEN AddTo(cats, o, transaction)
        ELSE Append(cats, BudgetCategory("Other", 0, Abs(transaction.amount),
                                         <<>>))

\* A variant that puts a created "Other" in front of the catalog.
CategorizeOneOtherFirst(cats, transaction) ==
    LET cat == CategoryFor(transaction.description)
        i   == Find(cats, cat)
        o   == Find(cats, "Other")
    IN  IF i # 0
        THEN AddTo(cats, i, transaction)
        ELSE IF o # 0
        THEN AddTo(cats, o, transaction)
        ELSE <<BudgetCategory("Other", 0, Abs(transaction.amount),
                              <<transaction>>)>> \o cats

\* A variant that falls back to "Other" only for transactions classified
\* "Other", and drops a transaction whose category is missing.
CategorizeOneDropMissing(cats, transaction) ==
    LET cat == CategoryFor(transaction.description)
        i   == Find(cats, cat)
    IN  IF i # 0
        THEN AddTo(cats, i, transaction)
        ELSE IF cat = "Other"
        THEN Append(cats, BudgetCategory("Other", 0, Abs(transaction.amount),
                                         <<transaction>>))
        ELSE cats

\* One iteration of `for transaction in transactions`, after `category`
\* was chosen.
CategorizeOne(cats, transaction) ==
    LET cat == CategoryFor(transaction.description)
        i   == Find(cats, cat)
        o   == Find(cats, "Other")
    IN  IF i # 0
        THEN AddTo(cats, i, transaction)
        ELSE IF o # 0
        THEN AddTo(cats, o, transaction)
        ELSE Append(cats, BudgetCategory("Other", 0, Abs(transaction.amount),
                                         <<transaction>>))

-----------------------------------------------------------------------------
(* The date window: format!("{}-{:02}-01T00:00:00Z", year, month) *)

FirstYear == 2023
Years == FirstYear..(FirstYear + YearSpan)
Months == 1..12

DigitChar == <<"0","1","2","3","4","5","6","7","8","9">>

\* "{}" of a non-negative integer
RECURSIVE Display(_)
Display(n) ==
    IF n < 10 THEN <<DigitChar[n + 1]>>
    ELSE Append(Display(n \div 10), DigitChar[(n % 10) + 1])

\* "{:02}" of a non-negative integer: zero-padded to at least two digits
Pad2(n) == IF n < 10 THEN <<"0">> \o Display(n) ELSE Display(n)

FirstOfMonth(year, month) ==
    Display(year) \o <<"-">> \o Pad2(month) \o <<"-", "01T00:00:00Z">>

FirstOfJanuary(year) ==
    Display(year) \o <<"-">> \o <<"0", "1">> \o <<"-", "01T00:00:00Z">>

\* A variant of the window that forgets the year roll-over in December.
WindowNoRollover(n) ==
    LET current_year == n[1]
        current_month == n[2]
    IN  [start_date |-> FirstOfMonth(current_year, current_month),
         end_date   |-> FirstOfMonth(current_year, current_month + 1)]

\* start_date / end_date as fetch_transactions computes them
fetch_transactions_window(n) ==
    LET current_year == n[1]
        current_month == n[2]
    IN  [start_date |-> FirstOfMonth(current_year, current_month),
         end_date   |-> IF current_month = 12
                        THEN FirstOfJanuary(current_year + 1)
                        ELSE FirstOfMonth(current_year, current_month + 1)]

\* start_date / end_date as get_balances computes them
get_balances_window(n) ==
    LET current_year == n[1]
        current_month == n[2]
    IN  [start_date |-> FirstOfMonth(current_year, current_month),
         end_date   |-> IF current_month = 12
                        THEN FirstOfJanuary(current_year + 1)
                        ELSE FirstOfMonth(current_year, current_month + 1)]

\* start_date / end_date as get_expenses computes them
get_expenses_window(n) ==
    LET current_year == n[1]
        current_month == n[2]
    IN  [start_date |-> FirstOfMonth(current_year, current_month),
         end_date   |-> IF current_month = 12
                        THEN FirstOfJanuary(current_year + 1)
                        ELSE FirstOfMonth(current_year, current_month + 1)]

\* The first URL of fetch_transactions (no status filter)
FirstUrl(w) ==
    <<"https://api.up.com.au/api/v1/transactions?filter[since]=">> \o w.start_date
    \o <<"&filter[until]=">> \o w.end_date \o <<"&page[size]=100">>

\* The first URL of get_expenses and get_balances (settled transactions only)
FirstUrlSettled(w) ==
    <<"https://api.up.com.au/api/v1/transactions?filter[since]=">> \o w.start_date
    \o <<"&filter[until]=">> \o w.end_date
    \o <<"&filter[status]=SETTLED&page[size]=100">>

-----------------------------------------------------------------------------
(* The remote API: JSON items, pages and responses *)

\* item["relationships"]["account"]["data"]["id"], a JSON object nest in which
\* every level may be missing
Relationships(id) == Some(Some(Some(Some(id))))
NoRelationships == None
NoAccount == Some(None)
NoAccountData == Some(Some(None))
NoAccountId == Some(Some(Some(None)))

Item(amount, description, createdAt, relationships) ==
    [amount |-> amount, description |-> description, createdAt |-> createdAt,
     relationships |-> relationships]

desc_coles == <<"C","o","l","e","s">>
desc_gift  == <<"g","i","f","t">>
desc_bus_bar_cafe == <<"b","u","s"," ","b","a","r"," ","c","a","f","e">>

ItemPool ==
    { Item(Some("-50.00"), Some(desc_coles), Some("2024-12-02T09:30:00+11:00"),
           Relationships("acc-A")),
      Item(Some("30.00"), Some(desc_gift), Some("2024-12-03T12:00:00+11:00"),
           Relationships("acc-B")),
      Item(Some("abc"), None, None, NoRelationships),
      Item(Some("-20.00"), Some(desc_bus_bar_cafe), Some("2024-12-05T18:45:00+11:00"),
           NoAccountData),
      Item(Some("0.00"), Some(kw_netflix), Some("2024-12-07T08:00:00+11:00"),
           Relationships("acc-A")) }

\* the links.next the server gives in its k-th response, when it gives one
NextUrl(k) == <<"https://api.up.com.au/api/v1/transactions?page[after]=">> \o Display(k)

ErrorBodies == { "{\"errors\":[{\"status\":\"401\"}]}", "{\"errors\":[{\"status\":\"429\"}]}" }

NoResponse ==
    [kind |-> "none", success |-> FALSE, parses |-> FALSE, data |-> None,
     next |-> None, text |-> ""]

\* send() failed: there is no response
TransportError == [NoResponse EXCEPT !.kind = "transport_error"]

\* a response with a non-success status and a body text
FailureResponse(text) == [NoResponse EXCEPT !.kind = "http", !.text = text]

\* a success response whose body is not JSON
GarbageResponse == [NoResponse EXCEPT !.kind = "http", !.success = TRUE]

\* a success response carrying a JSON payload {data, links: {next}}
PageResponse(data, next) ==
    [NoResponse EXCEPT !.kind = "http", !.success = TRUE, !.parses = TRUE,
                       !.data = data, !.next = next]

\* str::parse::<f64>() on the amount strings the model's server sends, in
\* cents; None when the string is no number
ParseF64(str) ==
    CASE str = "-50.00" -> Some(-5000)
      [] str = "30.00"  -> Some(3000)
      [] str = "-20.00" -> Some(-2000)
      [] str = "0.00"   -> Some(0)
      [] OTHER          -> None

-----------------------------------------------------------------------------
(* Result<T, E> *)

Ok(v) == [ok |-> TRUE, value |-> v, err |-> <<>>]
Err(e) == [ok |-> FALSE, value |-> <<>>, err |-> e]
NoResult == [ok |-> FALSE, value |-> <<>>, err |-> <<"pending">>]

NoHttp == [status |-> 0, page |-> "none", content |-> <<>>]

-----------------------------------------------------------------------------
(* Parsing one JSON item *)

Unknown == <<"U","n","k","n","o","w","n">>

\* item["attributes"]["amount"]["value"].as_str().unwrap_or("0.00")
\*     .parse().unwrap_or(0.0)
AmountOf(item) == UnwrapOr(ParseF64(UnwrapOr(item.amount, "0.00")), 0)

\* A variant that keeps the items in reverse array order.
ParsePageReversed(data) ==
    [i \in 1..Len(data) |->
        [date        |-> UnwrapOr(data[Len(data) + 1 - i].createdAt, ""),
         description |-> UnwrapOr(data[Len(data) + 1 - i].description, <<>>),
         amount      |-> AmountOf(data[Len(data) + 1 - i])]]

\* fetch_transactions: the Transaction built from one item
ParseTransaction(item) ==
    [date        |-> UnwrapOr(item.createdAt, ""),
     description |-> UnwrapOr(item.description, <<>>),
     amount      |-> AmountOf(item)]

\* fetch_transactions: `for item in data { ... transactions.push(..) }`
ParsePage(data) == [i \in 1..Len(data) |-> ParseTransaction(data[i])]

\* get_expenses: the list entry pushed for one item
ExpenseLine(item) ==
    [date   |-> UnwrapOr(item.createdAt, "Unknown"),
     debit  |-> Abs(AmountOf(item)),
     credit |-> Abs(AmountOf(item))]

\* A variant of the totals that adds an expense with its sign.
AddToTotalsSigned(totals, amount) ==
    IF amount < 0
    THEN [totals EXCEPT !.total_expenses = @ + amount]
    ELSE [totals EXCEPT !.total_incoming = @ + amount]

\* get_expenses: "Track total expenses and incoming money" for one amount
AddToTotals(totals, amount) ==
    IF amount < 0
    THEN [totals EXCEPT !.total_expenses = @ + Abs(amount)]
    ELSE [totals EXCEPT !.total_incoming = @ + amount]

\* get_expenses: the totals after the items of one page, in array order
RECURSIVE ExpensesPage(_, _)
ExpensesPage(totals, data) ==
    IF data = <<>> THEN totals
    ELSE ExpensesPage(AddToTotals(totals, AmountOf(Head(data))), Tail(data))

\* Option::and_then over a JSON object nest: one `get` deeper
Get(opt) == IF opt = None THEN None ELSE opt[1]

\* get_balances: relationships.account.data.id as Option<&str>
TransactionAccountId(item) == Get(Get(Get(item.relationships)))

\* get_balances: the list entry pushed for one item of the account
BalanceLine(item) ==
    [date        |-> UnwrapOr(item.createdAt, "Unknown"),
     amount      |-> Abs(AmountOf(item)),
     description |-> UnwrapOr(item.description, Unknown)]

\* A variant of the filter that also keeps the items without an account id.
BalancesPageKeepAbsent(data, account) ==
    LET kept == SelectSeq(data, LAMBDA it :
                    TransactionAccountId(it) \in {None, Some(account)})
    IN  [i \in 1..Len(kept) |-> BalanceLine(kept[i])]

\* get_balances: the entries one page adds, in array order
RECURSIVE BalancesPage(_, _)
BalancesPage(data, account) ==
    IF data = <<>> THEN <<>>
    ELSE (IF TransactionAccountId(Head(data)) = Some(account)
          THEN <<BalanceLine(Head(data))>> ELSE <<>>)
         \o BalancesPage(Tail(data), account)

-----------------------------------------------------------------------------
(* History helpers *)

IsPage(r) == r.kind = "http" /\ r.success /\ r.parses
HasData(r) == IsPage(r) /\ r.data # None

\* the kind of a response, as the history records it
Outcome(r) ==
    IF r.kind = "transport_error" THEN "transport_error"
    ELSE IF ~r.success THEN "failure"
    ELSE IF ~r.parses THEN "garbage"
    ELSE IF r.data = None THEN "no_data"
    ELSE "page"

-----------------------------------------------------------------------------
(* Initial states *)

Routes == {"budget", "expenses", "balances"}
AccountIds == {"acc-A"}

Idle ==
    /\ start_date = <<>>
    /\ end_date = <<>>
    /\ next_page_url = None
    /\ response = NoResponse
    /\ total_expenses = 0
    /\ total_incoming = 0
    /\ idx = 0
    /\ category = ""
    /\ http = NoHttp
    /\ requests = <<>>
    /\ outcomes = <<>>
    /\ served = <<>>
    /\ env = None
    /\ reqs = <<>>

\* a request arrives at one of the three routes of main()
Init ==
    /\ route \in Routes
    /\ pc = "start"
    /\ now = <<FirstYear, 12>>
    /\ account_id \in AccountIds
    /\ transactions = <<>>
    /\ transactions_result = NoResult
    /\ budget_categories = <<>>
    /\ Idle

\* the same, at any month of the years explored
InitWindow ==
    /\ route \in Routes
    /\ pc = "start"
    /\ now \in Years \X Months
    /\ account_id \in AccountIds
    /\ transactions = <<>>
    /\ transactions_result = NoResult
    /\ budget_categories = <<>>
    /\ Idle

Fragments ==
    { <<"w","o","o","l","w","o","r","t","h","s">>, <<"C","O","L","E","S">>,
      <<"A","l","d","i">>, <<"u","b","e","r">>, <<"b","u","s">>,
      <<"T","R","A","I","N">>, <<"n","e","t","f","l","i","x">>,
      <<"c","i","n","e","m","a">>, <<"w","a","t","e","r">>,
      <<"P","h","o","n","e">>, <<"c","a","f","e">>, <<"B","A","R">>,
      <<"k","f","c">>, <<" ">>, <<"x">>, <<"b">>, <<"u","s">> }

Keywords ==
    { kw_woolworths, kw_coles, kw_aldi, kw_uber, kw_lyft, kw_bus, kw_train,
      kw_netflix, kw_spotify, kw_cinema, kw_electricity, kw_water,
      kw_internet, kw_phone, kw_restaurant, kw_cafe, kw_bar, kw_mcdonalds,
      kw_kfc }

desc_WOOLWORTHS == <<"W","O","O","L","W","O","R","T","H","S">>

\* descriptions for single-transaction inputs
DescPool ==
    {Concat(fs) : fs \in SeqsUpTo(Fragments, MaxFrags)}
    \cup Keywords \cup {desc_bus_bar_cafe, desc_WOOLWORTHS}

Txn(description, amount) ==
    [date |-> "2024-12-02T09:30:00+11:00", description |-> description,
     amount |-> amount]

\* transactions for inputs of several transactions
TxnPool ==
    {Txn(d, a) : d \in {desc_coles, desc_bus_bar_cafe, desc_gift, <<>>},
                 a \in {-5000, 3000}}
    \cup {Txn(desc_gift, 0)}

CategorizeInputs ==
    SeqsUpTo(TxnPool, MaxTxns) \cup {<<Txn(d, -5000)>> : d \in DescPool}

\* categorize_transactions is entered with any Vec<Transaction> and the
\* fresh catalog, as budget_page calls it
InitCategorize ==
    /\ route = "budget"
    /\ pc = "categorize"
    /\ now = <<FirstYear, 12>>
    /\ account_id \in AccountIds
    /\ transactions \in CategorizeInputs
    /\ transactions_result = Ok(transactions)
    /\ budget_categories = get_budget_categories
    /\ Idle

-----------------------------------------------------------------------------
(* The remote API answers the request in flight *)

\* The server hands out at most MaxItems items and follows at most
\* MaxRequests requests with a next link; within that, any response.
ServerRespond ==
    /\ pc = "await"
    /\ LET room  == MaxItems - Len(served)
           link  == Some(NextUrl(Len(requests)))
           nexts == {None} \cup (IF Len(requests) < MaxRequests THEN {link} ELSE {})
       IN  \E r \in {TransportError, GarbageResponse}
                    \cup {FailureResponse(t) : t \in ErrorBodies}
                    \cup {PageResponse(None, n) : n \in {None, link}}
                    \cup {PageResponse(Some(d), n) : d \in SeqsUpTo(ItemPool, room), n \in nexts} :
             /\ response' = r
             /\ outcomes' = Append(outcomes, Outcome(r))
             /\ served' = IF HasData(r) THEN served \o r.data[1] ELSE served
    /\ pc' = "recv"
    /\ UNCHANGED <<env, reqs, route, now, start_date, end_date, account_id, next_page_url,
                   transactions, total_expenses, total_incoming,
                   transactions_result, budget_categories, idx, category,
                   http, requests>>

-----------------------------------------------------------------------------
(* /budget: budget_page, fetch_transactions, categorize_transactions *)

\* budget_page calls fetch_transactions, which sets up the first URL
FT_Start ==
    /\ route = "budget" /\ pc = "start"
    /\ LET w == fetch_transactions_window(now) IN
        /\ start_date' = w.start_date
        /\ end_date' = w.end_date
        /\ next_page_url' = Some(FirstUrl(w))
    /\ transactions' = <<>>
    /\ pc' = "loop"
    /\ UNCHANGED <<env, reqs, route, now, account_id, response, total_expenses,
                   total_incoming, transactions_result, budget_categories,
                   idx, category, http, requests, outcomes,
                   served>>

\* `while let Some(url) = next_page_url`: client.get(&url)...send()
FT_Send ==
    /\ route = "budget" /\ pc = "loop"
    /\ next_page_url # None
    /\ requests' = Append(requests, next_page_url[1])
    /\ pc' = "await"
    /\ UNCHANGED <<env, reqs, route, now, start_date, end_date, account_id, next_page_url,
                   response, transactions, total_expenses, total_incoming,
                   transactions_result, budget_categories, idx, category,
                   http, outcomes,
                   served>>

\* A variant of the loop body that goes on to the next page after a
\* non-success status or a payload without data.
FT_StepKeepGoing(txns, r) ==
    IF r.kind = "transport_error"
    THEN [pc |-> "match", transactions |-> <<>>, next_page_url |-> None,
          result |-> Err(<<"error sending request">>)]
    ELSE IF r.success /\ r.parses /\ r.data # None
    THEN [pc |-> "loop", transactions |-> txns \o ParsePage(r.data[1]),
          next_page_url |-> r.next, result |-> NoResult]
    ELSE [pc |-> "loop", transactions |-> txns,
          next_page_url |-> r.next, result |-> NoResult]

\* A variant of the loop body that returns what was collected when the
\* status is not a success.
FT_StepPartial(txns, r) ==
    IF r.kind = "transport_error"
    THEN [pc |-> "match", transactions |-> <<>>, next_page_url |-> None,
          result |-> Err(<<"error sending request">>)]
    ELSE IF r.success
    THEN IF ~r.parses
         THEN [pc |-> "match", transactions |-> <<>>, next_page_url |-> None,
               result |-> Err(<<"error decoding response body">>)]
         ELSE IF r.data # None
         THEN [pc |-> "loop", transactions |-> txns \o ParsePage(r.data[1]),
               next_page_url |-> r.next, result |-> NoResult]
         ELSE [pc |-> "match", transactions |-> txns, next_page_url |-> None,
               result |-> Ok(txns)]
    ELSE [pc |-> "match", transactions |-> txns, next_page_url |-> None,
          result |-> Ok(txns)]

\* A variant of the loop body that keeps the items of a page reversed.
FT_StepReversed(txns, r) ==
    IF r.kind = "transport_error"
    THEN [pc |-> "match", transactions |-> <<>>, next_page_url |-> None,
          result |-> Err(<<"error sending request">>)]
    ELSE IF r.success
    THEN IF ~r.parses
         THEN [pc |-> "match", transactions |-> <<>>, next_page_url |-> None,
               result |-> Err(<<"error decoding response body">>)]
         ELSE IF r.data # None
         THEN [pc |-> "loop", transactions |-> txns \o ParsePageReversed(r.data[1]),
               next_page_url |-> r.next, result |-> NoResult]
         ELSE [pc |-> "match", transactions |-> txns, next_page_url |-> None,
               result |-> Ok(txns)]
    ELSE [pc |-> "match", transactions |-> <<>>, next_page_url |-> None,
          result |-> Err(<<"Failed to fetch transactions: ", r.text>>)]

\* A variant of the loop body that requests the same URL again after a
\* non-success status.
FT_StepRetry(txns, r) ==
    IF r.kind = "transport_error"
    THEN [pc |-> "match", transactions |-> <<>>, next_page_url |-> None,
          result |-> Err(<<"error sending request">>)]
    ELSE IF r.success
    THEN IF ~r.parses
         THEN [pc |-> "match", transactions |-> <<>>, next_page_url |-> None,
               result |-> Err(<<"error decoding response body">>)]
         ELSE IF r.data # None
         THEN [pc |-> "loop", transactions |-> txns \o ParsePage(r.data[1]),
               next_page_url |-> r.next, result |-> NoResult]
         ELSE [pc |-> "match", transactions |-> txns, next_page_url |-> None,
               result |-> Ok(txns)]
    ELSE [pc |-> "loop", transactions |-> txns,
          next_page_url |-> Some(requests[Len(requests)]), result |-> NoResult]

\* The body of the loop of fetch_transactions once the request was
\* answered: where the function goes, its Vec, its cursor and, when it
\* returns, its result.  An Err drops the Vec.
FT_Step(txns, r) ==
    IF r.kind = "transport_error"
    THEN [pc |-> "match", transactions |-> <<>>, next_page_url |-> None,
          result |-> Err(<<"error sending request">>)]
    ELSE IF r.success
    THEN IF ~r.parses
         THEN [pc |-> "match", transactions |-> <<>>, next_page_url |-> None,
               result |-> Err(<<"error decoding response body">>)]
         ELSE IF r.data # None
         THEN [pc |-> "loop", transactions |-> txns \o ParsePage(r.data[1]),
               next_page_url |-> r.next, result |-> NoResult]
         ELSE [pc |-> "match", transactions |-> txns, next_page_url |-> None,
               result |-> Ok(txns)]
    ELSE [pc |-> "match", transactions |-> <<>>, next_page_url |-> None,
          result |-> Err(<<"Failed to fetch transactions: ", r.text>>)]

\* fetch_transactions handles the response
FT_Recv ==
    /\ route = "budget" /\ pc = "recv"
    /\ LET step == FT_Step(transactions, response) IN
        /\ pc' = step.pc
        /\ transactions' = step.transactions
        /\ next_page_url' = step.next_page_url
        /\ transactions_result' = step.result
    /\ UNCHANGED <<env, reqs, route, now, start_date, end_date, account_id, response,
                   total_expenses, total_incoming, budget_categories, idx,
                   category, http, requests, outcomes,
                   served>>

\* the cursor is None: Ok(transactions)
FT_Return ==
    /\ route = "budget" /\ pc = "loop"
    /\ next_page_url = None
    /\ transactions_result' = Ok(transactions)
    /\ pc' = "match"
    /\ UNCHANGED <<env, reqs, route, now, start_date, end_date, account_id, next_page_url,
                   response, transactions, total_expenses, total_incoming,
                   budget_categories, idx, category, http, requests,
                   outcomes,
                   served>>

\* budget_page, Ok(transactions): the fresh catalog, then the fold
BP_Ok ==
    /\ route = "budget" /\ pc = "match"
    /\ transactions_result.ok
    /\ transactions' = transactions_result.value
    /\ budget_categories' = get_budget_categories
    /\ idx' = 0
    /\ pc' = "categorize"
    /\ UNCHANGED <<env, reqs, route, now, start_date, end_date, account_id, next_page_url,
                   response, total_expenses, total_incoming,
                   transactions_result, category, http, requests, outcomes,
                   served>>

\* budget_page, Err(e): the error page
BP_Err ==
    /\ route = "budget" /\ pc = "match"
    /\ ~transactions_result.ok
    /\ http' = [status |-> 500, page |-> "error",
                content |-> <<"<h1>Error Fetching Transactions</h1><p>">>
                            \o transactions_result.err \o <<"</p>">>]
    /\ pc' = "done"
    /\ UNCHANGED <<env, reqs, route, now, start_date, end_date, account_id, next_page_url,
                   response, transactions, total_expenses, total_incoming,
                   transactions_result, budget_categories, idx, category,
                   requests, outcomes,
                   served>>

\* categorize_transactions: one iteration of the loop
CategorizeStep ==
    /\ route = "budget" /\ pc = "categorize"
    /\ idx < Len(transactions)
    /\ category' = CategoryFor(transactions[idx + 1].description)
    /\ budget_categories' = CategorizeOne(budget_categories, transactions[idx + 1])
    /\ idx' = idx + 1
    /\ UNCHANGED <<env, reqs, route, pc, transactions, http>>
    /\ UNCHANGED fetchVars

\* categorize_transactions returns and render_budget_page shows the catalog
CategorizeReturn ==
    /\ route = "budget" /\ pc = "categorize"
    /\ idx = Len(transactions)
    /\ http' = [status |-> 200, page |-> "budget", content |-> budget_categories]
    /\ pc' = "done"
    /\ UNCHANGED <<env, reqs, route, transactions, budget_categories, idx, category>>
    /\ UNCHANGED fetchVars

NextCategorize == CategorizeStep \/ CategorizeReturn

\* working catalogs other than the fresh one: empty, lacking categories,
\* with an "Other" of their own, with a name twice
CatalogPool ==
    { <<>>,
      get_budget_categories,
      Tail(get_budget_categories),
      <<BudgetCategory("Other", 10000, 0, <<>>)>> \o Tail(get_budget_categories),
      <<BudgetCategory("Dining Out", 25000, 0, <<>>)>>,
      <<BudgetCategory("Other", 10000, 0, <<>>),
        BudgetCategory("Other", 5000, 0, <<>>)>> }

\* categorize_transactions is entered with any Vec<Transaction> and any
\* catalog whose spent amounts are 0
InitCatalog ==
    /\ route = "budget"
    /\ pc = "categorize"
    /\ now = <<FirstYear, 12>>
    /\ account_id \in AccountIds
    /\ transactions \in SeqsUpTo(TxnPool, MaxCatalogTxns)
    /\ transactions_result = Ok(transactions)
    /\ budget_categories \in CatalogPool
    /\ Idle

SpecCatalog == InitCatalog /\ [][NextCategorize]_vars

SpecCategorize == InitCategorize /\ [][NextCategorize]_vars

-----------------------------------------------------------------------------
(* /expenses: get_expenses *)

GE_Start ==
    /\ route = "expenses" /\ pc = "start"
    /\ LET w == get_expenses_window(now) IN
        /\ start_date' = w.start_date
        /\ end_date' = w.end_date
        /\ next_page_url' = Some(FirstUrlSettled(w))
    /\ transactions' = <<>>
    /\ total_expenses' = 0
    /\ total_incoming' = 0
    /\ pc' = "loop"
    /\ UNCHANGED <<env, reqs, route, now, account_id, response, transactions_result,
                   budget_categories, idx, category, http, requests, outcomes,
                   served>>

\* `while let Some(url) = next_page_url`: client.get(&url)...send()
GE_Send ==
    /\ route = "expenses" /\ pc = "loop"
    /\ next_page_url # None
    /\ requests' = Append(requests, next_page_url[1])
    /\ pc' = "await"
    /\ UNCHANGED <<env, reqs, route, now, start_date, end_date, account_id, next_page_url,
                   response, transactions, total_expenses, total_incoming,
                   transactions_result, budget_categories, idx, category,
                   http, outcomes,
                   served>>

\* The body of the loop of get_expenses once the request was answered.
\* expect() panics when there is no response or the body is no JSON; a
\* non-success status and a payload without data both `break`.
GE_Step(txns, totals, r) ==
    IF r.kind = "transport_error"
    THEN [pc |-> "panicked", transactions |-> txns, totals |-> totals,
          next_page_url |-> None]
    ELSE IF r.success
    THEN IF ~r.parses
         THEN [pc |-> "panicked", transactions |-> txns, totals |-> totals,
               next_page_url |-> None]
         ELSE IF r.data # None
         THEN [pc |-> "loop",
               transactions |-> txns \o [i \in 1..Len(r.data[1]) |-> ExpenseLine(r.data[1][i])],
               totals |-> ExpensesPage(totals, r.data[1]),
               next_page_url |-> r.next]
         ELSE [pc |-> "render", transactions |-> txns, totals |-> totals,
               next_page_url |-> None]
    ELSE [pc |-> "render", transactions |-> txns, totals |-> totals,
          next_page_url |-> None]

GE_Recv ==
    /\ route = "expenses" /\ pc = "recv"
    /\ LET step == GE_Step(transactions,
                           [total_expenses |-> total_expenses,
                            total_incoming |-> total_incoming], response)
       IN
        /\ pc' = step.pc
        /\ transactions' = step.transactions
        /\ total_expenses' = step.totals.total_expenses
        /\ total_incoming' = step.totals.total_incoming
        /\ next_page_url' = step.next_page_url
    /\ UNCHANGED <<env, reqs, route, now, start_date, end_date, account_id, response,
                   transactions_result, budget_categories, idx, category,
                   http, requests, outcomes,
                   served>>

\* what the page shows: total_expenses * -1.0, total_incoming, their
\* difference and the list
ExpensesPageContent(year, month, expenses, incoming, items) ==
    [month |-> month, year |-> year,
     class |-> IF expenses > 0 THEN "" ELSE "negative",
     total_expenses |-> expenses * (-1),
     total_incoming |-> incoming,
     change |-> incoming - expenses,
     items |-> items]

\* the loop is over (cursor None, or break): the page, always 200 OK
GE_Render ==
    /\ route = "expenses"
    /\ pc = "render" \/ (pc = "loop" /\ next_page_url = None)
    /\ http' = [status |-> 200, page |-> "expenses",
                content |-> ExpensesPageContent(now[1], now[2], total_expenses,
                                                total_incoming, transactions)]
    /\ pc' = "done"
    /\ UNCHANGED <<env, reqs, route, now, start_date, end_date, account_id, next_page_url,
                   response, transactions, total_expenses, total_incoming,
                   transactions_result, budget_categories, idx, category,
                   requests, outcomes,
                   served>>

-----------------------------------------------------------------------------
(* /balances: get_balances *)

GB_Start ==
    /\ route = "balances" /\ pc = "start"
    /\ LET w == get_balances_window(now) IN
        /\ start_date' = w.start_date
        /\ end_date' = w.end_date
        /\ next_page_url' = Some(FirstUrlSettled(w))
    /\ transactions' = <<>>
    /\ pc' = "loop"
    /\ UNCHANGED <<env, reqs, route, now, account_id, response, total_expenses,
                   total_incoming, transactions_result, budget_categories,
                   idx, category, http, requests, outcomes,
                   served>>

\* `while let Some(url) = next_page_url`: client.get(&url)...send()
GB_Send ==
    /\ route = "balances" /\ pc = "loop"
    /\ next_page_url # None
    /\ requests' = Append(requests, next_page_url[1])
    /\ pc' = "await"
    /\ UNCHANGED <<env, reqs, route, now, start_date, end_date, account_id, next_page_url,
                   response, transactions, total_expenses, total_incoming,
                   transactions_result, budget_categories, idx, category,
                   http, outcomes,
                   served>>

\* The body of the loop of get_balances once the request was answered.
GB_Step(txns, account, r) ==
    IF r.kind = "transport_error"
    THEN [pc |-> "panicked", transactions |-> txns, next_page_url |-> None]
    ELSE IF r.success
    THEN IF ~r.parses
         THEN [pc |-> "panicked", transactions |-> txns, next_page_url |-> None]
         ELSE IF r.data # None
         THEN [pc |-> "loop",
               transactions |-> txns \o BalancesPage(r.data[1], account),
               next_page_url |-> r.next]
         ELSE [pc |-> "render", transactions |-> txns, next_page_url |-> None]
    ELSE [pc |-> "render", transactions |-> txns, next_page_url |-> None]

GB_Recv ==
    /\ route = "balances" /\ pc = "recv"
    /\ LET step == GB_Step(transactions, account_id, response) IN
        /\ pc' = step.pc
        /\ transactions' = step.transactions
        /\ next_page_url' = step.next_page_url
    /\ UNCHANGED <<env, reqs, route, now, start_date, end_date, account_id, response,
                   total_expenses, total_incoming, transactions_result,
                   budget_categories, idx, category, http, requests,
                   outcomes,
                   served>>

\* the loop is over (cursor None, or break): the page, always 200 OK
GB_Render ==
    /\ route = "balances"
    /\ pc = "render" \/ (pc = "loop" /\ next_page_url = None)
    /\ http' = [status |-> 200, page |-> "balances",
                content |-> [account_id |-> account_id, items |-> transactions]]
    /\ pc' = "done"
    /\ UNCHANGED <<env, reqs, route, now, start_date, end_date, account_id, next_page_url,
                   response, transactions, total_expenses, total_incoming,
                   transactions_result, budget_categories, idx, category,
                   requests, outcomes,
                   served>>

-----------------------------------------------------------------------------
(* Specifications *)

Next ==
    \/ ServerRespond
    \/ FT_Start \/ FT_Send \/ FT_Recv \/ FT_Return
    \/ BP_Ok \/ BP_Err
    \/ CategorizeStep \/ CategorizeReturn
    \/ GE_Start \/ GE_Send \/ GE_Recv \/ GE_Render
    \/ GB_Start \/ GB_Send \/ GB_Recv \/ GB_Render

\* one request, from its arrival to its response
Spec == Init /\ [][Next]_vars

\* the same, with the runtime driving fetch_transactions on whenever it can
\* go on
SpecFair == Spec /\ WF_vars(FT_Recv) /\ WF_vars(FT_Return)

NextWindow == FT_Start \/ GE_Start \/ GB_Start

\* the date window of a request arriving at any month
SpecWindow == InitWindow /\ [][NextWindow]_vars

-----------------------------------------------------------------------------
(* Properties of categorize_transactions *)

\* the transactions the fold has consumed so far
Folded == SubSeq(transactions, 1, idx)

InFold == route = "budget" /\ pc \in {"categorize", "done"} /\ http.page # "error"

SpentAmounts == [i \in 1..Len(budget_categories) |-> budget_categories[i].spent_amount]
AbsAmounts(txns) == [i \in 1..Len(txns) |-> Abs(txns[i].amount)]

\* C1: starting from the fresh catalog, after every prefix of the input has
\* been folded (and so at the end), the sum of spent_amount over all
\* categories equals the sum of abs(amount) over the transactions folded.
C1_Conservation ==
    InFold => SumSeq(SpentAmounts) = SumSeq(AbsAmounts(Folded))

\* C1 witness: a whole input with a debit and a credit was folded and the
\* spent amounts add up to more than either.
C1_Witness ==
    /\ InFold /\ pc = "done" /\ idx = Len(transactions)
    /\ \E i, j \in 1..Len(transactions) :
          transactions[i].amount < 0 /\ transactions[j].amount > 0
    /\ SumSeq(SpentAmounts) = 8000

\* how often transaction t is listed over all categories
Listed(t) ==
    SumSeq([i \in 1..Len(budget_categories) |->
               Count(budget_categories[i].transactions, t)])

ListedTotal ==
    SumSeq([i \in 1..Len(budget_categories) |->
               Len(budget_categories[i].transactions)])

ListedIn(t) ==
    {i \in 1..Len(budget_categories) :
        \E k \in 1..Len(budget_categories[i].transactions) :
            budget_categories[i].transactions[k] = t}

\* C2: after the fold (and after every prefix of it) every transaction
\* folded is listed exactly as often as it occurs in the input, in exactly
\* one category; no category lists a transaction that was not folded; the
\* number of listed transactions is the number folded.
C2_Partition ==
    InFold =>
        /\ \A k \in 1..Len(Folded) :
              /\ Listed(Folded[k]) = Count(Folded, Folded[k])
              /\ Cardinality(ListedIn(Folded[k])) = 1
        /\ \A i \in 1..Len(budget_categories) :
              \A k \in 1..Len(budget_categories[i].transactions) :
                  Count(Folded, budget_categories[i].transactions[k]) > 0
        /\ ListedTotal = Len(Folded)

\* C2 witness: three transactions were folded into three different
\* categories, one of them the created "Other".
C2_Witness ==
    /\ InFold /\ pc = "done" /\ Len(transactions) = 3
    /\ Cardinality(UNION {ListedIn(transactions[k]) : k \in 1..3}) = 3
    /\ Len(budget_categories) = 6

\* letters folded to upper case, independently of to_lowercase
UpperChar ==
    [c \in Chars |->
        IF \E i \in 1..Len(Lower) : Lower[i] = c
        THEN Upper[CHOOSE i \in 1..Len(Lower) : Lower[i] = c]
        ELSE c]

SameLetter(a, b) == UpperChar[a] = UpperChar[b]

\* keyword k occurs in description d, case-insensitively
Occurs(k, d) ==
    \E off \in 0..(Len(d) - Len(k)) :
        \A j \in 1..Len(k) : SameLetter(d[off + j], k[j])

\* the rule table in its fixed order
Rules ==
    << [name |-> "Groceries", keywords |-> {kw_woolworths, kw_coles, kw_aldi}],
       [name |-> "Transportation", keywords |-> {kw_uber, kw_lyft, kw_bus, kw_train}],
       [name |-> "Entertainment", keywords |-> {kw_netflix, kw_spotify, kw_cinema}],
       [name |-> "Utilities",
        keywords |-> {kw_electricity, kw_water, kw_internet, kw_phone}],
       [name |-> "Dining Out",
        keywords |-> {kw_restaurant, kw_cafe, kw_bar, kw_mcdonalds, kw_kfc}] >>

RulesHit(d) == {i \in 1..Len(Rules) : \E k \in Rules[i].keywords : Occurs(k, d)}

\* the name of the first rule a description hits, "Other" if it hits none
FirstRule(d) ==
    IF RulesHit(d) = {} THEN "Other"
    ELSE Rules[CHOOSE i \in RulesHit(d) : \A j \in RulesHit(d) : i <= j].name

\* C4: the category chosen for a transaction is that of the first rule, in
\* the order Groceries, Transportation, Entertainment, Utilities, Dining
\* Out, with a keyword occurring in the description whatever its letter
\* case, and "Other" when no rule has one; "bus bar cafe" is Transportation,
\* "WOOLWORTHS" is Groceries as "woolworths" is.
C4_RuleOrder ==
    (InFold /\ idx > 0) =>
        LET d == transactions[idx].description IN
        /\ category = FirstRule(d)
        /\ d = desc_bus_bar_cafe => category = "Transportation"
        /\ d \in {desc_WOOLWORTHS, kw_woolworths} => category = "Groceries"

\* C4 witness: a description with keywords of Transportation and Dining Out
\* was classified, as Transportation.
C4_Witness ==
    /\ InFold /\ idx > 0
    /\ transactions[idx].description = desc_bus_bar_cafe
    /\ RulesHit(desc_bus_bar_cafe) = {2, 5}
    /\ category = "Transportation"

Unmatched(txns) == SelectSeq(txns, LAMBDA t : RulesHit(t.description) = {})

Others == {i \in 1..Len(budget_categories) : budget_categories[i].name = "Other"}

\* C3: at every step of the fold over the fresh catalog, category names are
\* unique and there is an "Other" category exactly when a transaction
\* matching no rule was folded; it has allocated_amount 0, and it holds all
\* those transactions: its spent_amount is the sum of their abs(amount).
C3_OverflowOnce ==
    InFold =>
        /\ \A i, j \in 1..Len(budget_categories) :
              budget_categories[i].name = budget_categories[j].name => i = j
        /\ Cardinality(Others) = IF Unmatched(Folded) = <<>> THEN 0 ELSE 1
        /\ \A i \in Others :
              /\ budget_categories[i].allocated_amount = 0
              /\ budget_categories[i].transactions = Unmatched(Folded)
              /\ budget_categories[i].spent_amount
                    = SumSeq(AbsAmounts(Unmatched(Folded)))

\* C3 witness: two transactions matching no rule were folded and the one
\* "Other" category holds both.
C3_Witness ==
    /\ InFold /\ Len(Unmatched(Folded)) >= 2
    /\ \E i \in Others :
          /\ Len(budget_categories[i].transactions) >= 2
          /\ budget_categories[i].spent_amount > 5000

-----------------------------------------------------------------------------
(* Properties of the pagination loops *)

Last(q) == q[Len(q)]

\* the transactions the items received so far stand for, in order
ServedTransactions == [i \in 1..Len(served) |-> ParseTransaction(served[i])]

AllPages == outcomes # <<>> /\ \A k \in 1..Len(outcomes) : outcomes[k] = "page"

\* page N, the last of a chain of pages with data, has just arrived
ChainComplete ==
    /\ route = "budget" /\ pc = "recv"
    /\ AllPages /\ response.next = None

\* fetch_transactions has returned after such a chain
ChainReturned ==
    /\ route = "budget" /\ pc \in {"match", "categorize", "done"}
    /\ AllPages /\ response.next = None

\* C5: after a chain of N successful pages with data of which only the last
\* has no links.next, fetch_transactions has issued exactly N requests and
\* returns Ok with the pages' items in page order and array order; and once
\* page N has arrived it does return.
C5_PaginationTerminates ==
    /\ [](ChainReturned =>
            /\ transactions_result = Ok(ServedTransactions)
            /\ Len(requests) = Len(outcomes))
    /\ [](AllPages /\ route = "budget" /\ pc = "loop" /\ response.next = None
            => next_page_url = None)
    /\ (ChainComplete ~> ChainReturned)

\* C5 witness: a chain of three pages with three items in all was fetched.
C5_Witness ==
    /\ ChainReturned /\ pc = "match"
    /\ Len(outcomes) = 3 /\ Len(requests) = 3
    /\ Len(served) = 3 /\ served[1] # served[2]
    /\ transactions_result.ok /\ Len(transactions_result.value) = 3

\* C6: when the k-th request of fetch_transactions is answered with a
\* non-success status, no further request is issued, the fetch returns an
\* Err carrying the body text of that response and none of the transactions
\* of the earlier pages, and budget_page shows the error, not a catalog.
C6_FetchAbort ==
    (route = "budget" /\ outcomes # <<>> /\ Last(outcomes) = "failure") =>
        /\ Len(requests) = Len(outcomes)
        /\ pc \in {"recv", "match", "done"}
        /\ pc \in {"match", "done"} =>
              /\ ~transactions_result.ok
              /\ transactions_result.value = <<>>
              /\ transactions_result.err
                    = <<"Failed to fetch transactions: ", response.text>>
              /\ budget_categories = <<>>
        /\ pc = "done" =>
              /\ http.status = 500 /\ http.page = "error"
              /\ http.content = <<"<h1>Error Fetching Transactions</h1><p>",
                                  "Failed to fetch transactions: ",
                                  response.text, "</p>">>

\* C6 witness: the second request failed after a first page with items, and
\* the error page was produced.
C6_Witness ==
    /\ route = "budget" /\ pc = "done"
    /\ outcomes = <<"page", "failure">> /\ Len(served) >= 2
    /\ http.status = 500

\* C7 (as claimed): in get_expenses and get_balances a non-success status
\* ends in a failure response, not in a page rendered from what the earlier
\* pages gave.
C7_AbortSurfaced ==
    (route \in {"expenses", "balances"} /\ pc = "done"
        /\ outcomes # <<>> /\ Last(outcomes) = "failure")
    => http.status # 200

\* C10: when a success response of fetch_transactions has no data array, no
\* further request is issued, whatever links.next it carries, and the fetch
\* returns Ok with exactly the transactions of the earlier pages.
C10_NoDataEndsStream ==
    (route = "budget" /\ outcomes # <<>> /\ Last(outcomes) = "no_data") =>
        /\ Len(requests) = Len(outcomes)
        /\ pc \in {"recv", "match", "categorize", "done"}
        /\ pc # "recv" =>
              /\ transactions_result = Ok(ServedTransactions)
              /\ http.status \in {0, 200}

\* C10 witness: a payload without data but with a links.next came second,
\* and the fetch returned the items of the first page.
C10_Witness ==
    /\ route = "budget" /\ pc = "match"
    /\ outcomes = <<"page", "no_data">> /\ response.next # None
    /\ transactions_result.ok /\ Len(transactions_result.value) = 2

-----------------------------------------------------------------------------
(* Properties of the expense summary *)

ServedAmounts == [i \in 1..Len(served) |-> AmountOf(served[i])]

Debits == SelectSeq(ServedAmounts, LAMBDA a : a < 0)
Credits == SelectSeq(ServedAmounts, LAMBDA a : a >= 0)

\* C9: once get_expenses has gone through the items received,
\* total_expenses is the sum of abs(amount) over the amounts below zero and
\* total_incoming the sum of the others; total_expenses is never negative,
\* and the change in position shown is the signed sum of all amounts;
\* [-50, 30, -20] gives 70, 30 and -40.
C9_ExpenseSummary ==
    (route = "expenses" /\ pc \in {"loop", "await", "render", "done"}) =>
        /\ total_expenses = SumSeq([i \in 1..Len(Debits) |-> Abs(Debits[i])])
        /\ total_incoming = SumSeq(Credits)
        /\ total_expenses >= 0
        /\ total_incoming - total_expenses = SumSeq(ServedAmounts)
        /\ pc = "done" => http.content.change = SumSeq(ServedAmounts)
        /\ ServedAmounts = <<-5000, 3000, -2000>> =>
              /\ total_expenses = 7000
              /\ total_incoming = 3000
              /\ total_incoming - total_expenses = -4000

\* C9 witness: the amounts -50, 30 and -20 were summed over two pages.
C9_Witness ==
    /\ route = "expenses" /\ pc = "done"
    /\ ServedAmounts = <<-5000, 3000, -2000>>
    /\ Len(outcomes) = 2
    /\ total_expenses = 7000 /\ http.content.change = -4000

-----------------------------------------------------------------------------
(* Properties of the date window *)

DigitValue(c) == CHOOSE d \in 0..9 : DigitChar[d + 1] = c
IsDigit(c) == \E d \in 0..9 : DigitChar[d + 1] = c

RECURSIVE Number(_)
Number(ds) ==
    IF ds = <<>> THEN 0
    ELSE 10 * Number(SubSeq(ds, 1, Len(ds) - 1)) + DigitValue(Last(ds))

\* a timestamp YYYY-MM-01T00:00:00Z read back: its year and month, or
\* <<0, 0>> when it is not of that form
ReadFirstOfMonth(str) ==
    IF /\ Len(str) >= 6
       /\ str[Len(str)] = "01T00:00:00Z"
       /\ str[Len(str) - 1] = "-"
       /\ IsDigit(str[Len(str) - 2]) /\ IsDigit(str[Len(str) - 3])
       /\ str[Len(str) - 4] = "-"
       /\ \A i \in 1..(Len(str) - 5) : IsDigit(str[i])
    THEN <<Number(SubSeq(str, 1, Len(str) - 5)),
           Number(SubSeq(str, Len(str) - 3, Len(str) - 2))>>
    ELSE <<0, 0>>

\* C8: at each of the three call sites, for every year and month of `now`,
\* start_date reads as the first day of that month at 00:00:00Z and
\* end_date as the first day of the following month, which for December is
\* January of the next year; end_date is strictly after start_date.
C8_DateWindow ==
    pc = "loop" =>
        LET s == ReadFirstOfMonth(start_date)
            e == ReadFirstOfMonth(end_date)
        IN  /\ s = now
            /\ e = IF now[2] = 12 THEN <<now[1] + 1, 1>> ELSE <<now[1], now[2] + 1>>
            /\ e[2] \in Months
            /\ e[1] * 12 + e[2] > s[1] * 12 + s[2]

\* C8 witness: get_expenses computed the window of a December.
C8_Witness ==
    /\ route = "expenses" /\ pc = "loop" /\ now = <<2024, 12>>
    /\ start_date = <<"2","0","2","4","-","1","2","-","01T00:00:00Z">>
    /\ end_date = <<"2","0","2","5","-","0","1","-","01T00:00:00Z">>

-----------------------------------------------------------------------------
(* The catalog as categorize_transactions returns it *)

\* the names and allocated amounts (in cents) of the fixed catalog, in order
FixedNames == <<"Groceries", "Transportation", "Entertainment", "Utilities",
                "Dining Out">>
FixedAllocated == <<50000, 20000, 15000, 30000, 25000>>

\* the transactions of txns, in order, that the rule table gives to name
Assigned(txns, name) == SelectSeq(txns, LAMBDA t : FirstRule(t.description) = name)

\* C11: at every step of the fold over the fresh catalog, and so in what it
\* returns, the first five categories are Groceries, Transportation,
\* Entertainment, Utilities and Dining Out in this order with their
\* allocated amounts; a sixth category, "Other", follows exactly when a
\* transaction matching no rule was folded; and every category lists, in
\* arrival order, the folded transactions classified to it (a subsequence
\* of the input).
C11_CatalogOrder ==
    InFold =>
        /\ Len(budget_categories)
              = Len(FixedNames) + (IF Unmatched(Folded) = <<>> THEN 0 ELSE 1)
        /\ \A i \in 1..Len(FixedNames) :
              /\ budget_categories[i].name = FixedNames[i]
              /\ budget_categories[i].allocated_amount = FixedAllocated[i]
        /\ \A i \in (Len(FixedNames) + 1)..Len(budget_categories) :
              budget_categories[i].name = "Other"
        /\ \A i \in 1..Len(budget_categories) :
              budget_categories[i].transactions
                 = Assigned(Folded, budget_categories[i].name)

\* C11 witness: the fold returned six categories, "Other" last, and one of
\* the fixed categories lists two different transactions in arrival order.
C11_Witness ==
    /\ InFold /\ pc = "done" /\ Len(transactions) = 3
    /\ Len(budget_categories) = 6 /\ budget_categories[6].name = "Other"
    /\ budget_categories[1].transactions = <<transactions[1], transactions[3]>>
    /\ transactions[1] # transactions[3]

-----------------------------------------------------------------------------
(* The fold over an arbitrary catalog *)

Named(name) == {i \in 1..Len(budget_categories) : budget_categories[i].name = name}

Min(S) == CHOOSE i \in S : \A j \in S : i <= j

\* C15: over any starting catalog whose spent amounts are 0, a folded
\* transaction is listed in the first category bearing its classified name
\* and, when the catalog has none, in the first "Other" category, which is
\* pushed last with allocated_amount 0 if there was none: it is never
\* dropped, so the spent amounts add up to the sum of abs(amount) folded and
\* every folded transaction is listed in exactly one category.
C15_FallbackToOther ==
    InFold =>
        /\ SumSeq(SpentAmounts) = SumSeq(AbsAmounts(Folded))
        /\ ListedTotal = Len(Folded)
        /\ \A k \in 1..Len(Folded) :
              LET name == FirstRule(Folded[k].description) IN
              /\ Listed(Folded[k]) = Count(Folded, Folded[k])
              /\ Cardinality(ListedIn(Folded[k])) = 1
              /\ IF Named(name) # {}
                 THEN ListedIn(Folded[k]) = {Min(Named(name))}
                 ELSE Others # {} /\ ListedIn(Folded[k]) = {Min(Others)}
        /\ \A i \in 1..Len(budget_categories) :
              budget_categories[i].allocated_amount = 0 =>
                 /\ budget_categories[i].name = "Other"
                 /\ i = Len(budget_categories)
                 /\ Others = {i}

\* C15 witness: over a catalog without Groceries and without "Other", two
\* grocery transactions were folded into one created "Other".
C15_Witness ==
    /\ InFold /\ pc = "done" /\ Len(transactions) = 2
    /\ \A k \in 1..2 : FirstRule(transactions[k].description) = "Groceries"
    /\ Named("Groceries") = {}
    /\ Len(budget_categories) = 5
    /\ budget_categories[5].name = "Other"
    /\ budget_categories[5].allocated_amount = 0
    /\ budget_categories[5].transactions = transactions
    /\ budget_categories[5].spent_amount = 8000

-----------------------------------------------------------------------------
(* The order of the page requests *)

Outstanding == Len(requests) - Len(outcomes)

\* C13: in each pagination loop at most one request is outstanding; a
\* request is issued only when every earlier one was answered, and every
\* request but the first follows a page with data and goes to exactly the
\* URL of that response's links.next; after any other response (a
\* non-success status, no response, no JSON, no data) nothing is requested
\* again, and no URL is requested twice.
C13_Sequential ==
    /\ [](Outstanding \in {0, 1})
    /\ [](Outstanding = 1 <=> pc = "await")
    /\ [](\A i, j \in 1..Len(requests) : requests[i] = requests[j] => i = j)
    /\ []((outcomes # <<>> /\ Last(outcomes) # "page") => Outstanding = 0)
    /\ [][requests' # requests =>
            /\ Outstanding = 0
            /\ Len(requests') = Len(requests) + 1
            /\ SubSeq(requests', 1, Len(requests)) = requests
            /\ requests # <<>> =>
                  /\ Last(outcomes) = "page"
                  /\ response.next # None
                  /\ Last(requests') = response.next[1]]_vars

\* C13 witness: fetch_transactions has issued three requests, the second
\* and third to the links.next of the first and second response, and all
\* three were answered.
C13_Witness ==
    /\ route = "budget" /\ pc = "recv"
    /\ Len(requests) = 3 /\ Len(outcomes) = 3
    /\ requests[2] = NextUrl(1) /\ requests[3] = NextUrl(2)
    /\ requests[1] # requests[2] /\ requests[2] # requests[3]

-----------------------------------------------------------------------------
(* The account filter of get_balances *)

\* the item has relationships.account.data.id, and it is `account`
OfAccount(item, account) == item.relationships = <<<<<<<<account>>>>>>>>

\* the items received so far that belong to the account asked for
ServedOfAccount == SelectSeq(served, LAMBDA it : OfAccount(it, account_id))

\* C14: once get_balances has gone through the items received, its list
\* holds exactly those whose relationships.account.data.id is present and
\* equal to the account_id asked for, in arrival order across pages; an
\* item lacking that path is left out without an error (the handler fails
\* only when there is no response or no JSON); and the cursor after a page
\* is that page's links.next whatever the filter kept; the page shown
\* lists exactly these entries.
C14_AccountFilter ==
    route = "balances" =>
        /\ pc \in {"loop", "await", "render", "done"} =>
              transactions = [i \in 1..Len(ServedOfAccount) |->
                                 BalanceLine(ServedOfAccount[i])]
        /\ pc = "panicked" => Last(outcomes) \in {"transport_error", "garbage"}
        /\ (pc = "loop" /\ outcomes # <<>>) =>
              /\ Last(outcomes) = "page"
              /\ next_page_url = response.next
        /\ pc = "done" =>
              /\ http.status = 200
              /\ http.content = [account_id |-> account_id, items |-> transactions]

\* C14 witness: over two pages, two different items of the account came
\* with items of another account and items without the path in between,
\* and the page lists the two.
C14_Witness ==
    /\ route = "balances" /\ pc = "done" /\ outcomes = <<"page", "page">>
    /\ Len(served) = 3 /\ Len(ServedOfAccount) = 2
    /\ OfAccount(served[1], account_id) /\ OfAccount(served[3], account_id)
    /\ served[2].relationships \in {NoRelationships, NoAccountData}
    /\ Len(http.content.items) = 2
    /\ http.content.items[1] # http.content.items[2]

-----------------------------------------------------------------------------
(* Two /budget requests served at the same time.  Each call of budget_page *)
(* has its own locals, kept in reqs[i]; the process environment, which     *)
(* dotenv() fills and env::var reads, is the one location both touch.      *)

\* most page requests of one fetch when two requests run together
PairRequests == 2

Requesters == {1, 2}

\* API_KEY as the .env file gives it, and as the environment may hold it
\* before the first request
DotEnvFile == Some("key-of-dotenv-file")
EnvKeys == {None, Some("key-of-environment")}

\* dotenv().ok(): a variable of the file is set unless it is set already
dotenv(e) == IF e = None THEN DotEnvFile ELSE e

\* both requests arrive in the same month
PairNow == <<FirstYear, 12>>

\* the data arrays the server sends to the two requests
PairData ==
    {<<it>> : it \in {i \in ItemPool :
                i.description \in {Some(desc_coles), Some(desc_gift)}}}

\* the first URL of both
PairFirstUrl == Some(FirstUrl(fetch_transactions_window(PairNow)))

PairErrorBody == "{\"errors\":[{\"status\":\"429\"}]}"

\* a call of budget_page that has not begun
NotStarted ==
    [pc |-> "start", api_key |-> None, next_page_url |-> None,
     response |-> NoResponse, transactions |-> <<>>,
     transactions_result |-> NoResult, budget_categories |-> <<>>,
     idx |-> 0, http |-> NoHttp,
     received |-> <<>>,      \* history: the responses this request got
     overlapped |-> FALSE]   \* history: it sent a page request while the
                             \* other request had one in flight

InitPair ==
    /\ route = "budget"
    /\ pc = "pair"
    /\ now = PairNow
    /\ account_id \in AccountIds
    /\ transactions = <<>>
    /\ transactions_result = NoResult
    /\ budget_categories = <<>>
    /\ start_date = <<>>
    /\ end_date = <<>>
    /\ next_page_url = None
    /\ response = NoResponse
    /\ total_expenses = 0
    /\ total_incoming = 0
    /\ idx = 0
    /\ category = ""
    /\ http = NoHttp
    /\ requests = <<>>
    /\ outcomes = <<>>
    /\ served = <<>>
    /\ env \in EnvKeys
    /\ reqs = [i \in Requesters |-> NotStarted]

Other(i) == CHOOSE j \in Requesters : j # i

\* budget_page reads API_KEY and calls fetch_transactions, which sets up
\* the first URL
Pair_Start(i) ==
    /\ reqs[i].pc = "start"
    /\ env' = dotenv(env)
    /\ env' # None
    /\ reqs' = [reqs EXCEPT ![i] =
                  [@ EXCEPT !.api_key = env',
                            !.next_page_url = PairFirstUrl,
                            !.transactions = <<>>,
                            !.pc = "loop"]]
    /\ UNCHANGED singleVars

\* `while let Some(url) = next_page_url`: client.get(&url)...send()
Pair_Send(i) ==
    /\ reqs[i].pc = "loop"
    /\ reqs[i].next_page_url # None
    /\ reqs' = [reqs EXCEPT ![i] =
                  [@ EXCEPT !.pc = "await",
                            !.overlapped = @ \/ reqs[Other(i)].pc = "await"]]
    /\ UNCHANGED <<env, singleVars>>

\* the remote API answers the request that request i has in flight
Pair_Respond(i) ==
    /\ reqs[i].pc = "await"
    /\ LET link  == Some(NextUrl(Len(reqs[i].received) + 1))
           nexts == {None} \cup (IF Len(reqs[i].received) + 1 < PairRequests
                                 THEN {link} ELSE {})
       IN  \E r \in {TransportError, FailureResponse(PairErrorBody)}
                    \cup {PageResponse(Some(d), n) : d \in PairData, n \in nexts} :
             reqs' = [reqs EXCEPT ![i] =
                        [@ EXCEPT !.response = r,
                                  !.received = Append(@, r),
                                  !.pc = "recv"]]
    /\ UNCHANGED <<env, singleVars>>

\* fetch_transactions of request i handles the response
Pair_Recv(i) ==
    /\ reqs[i].pc = "recv"
    /\ LET step == FT_Step(reqs[i].transactions, reqs[i].response) IN
        reqs' = [reqs EXCEPT ![i] =
                   [@ EXCEPT !.pc = step.pc,
                             !.transactions = step.transactions,
                             !.next_page_url = step.next_page_url,
                             !.transactions_result = step.result]]
    /\ UNCHANGED <<env, singleVars>>

\* the cursor of request i is None: Ok(transactions)
Pair_Return(i) ==
    /\ reqs[i].pc = "loop"
    /\ reqs[i].next_page_url = None
    /\ reqs' = [reqs EXCEPT ![i] =
                  [@ EXCEPT !.transactions_result = Ok(reqs[i].transactions),
                            !.pc = "match"]]
    /\ UNCHANGED <<env, singleVars>>

\* A variant of budget_page that takes the catalog the other request is
\* working on when there is one.
Pair_OkShared(i) ==
    /\ reqs[i].pc = "match"
    /\ reqs[i].transactions_result.ok
    /\ reqs' = [reqs EXCEPT ![i] =
                  [@ EXCEPT !.transactions = reqs[i].transactions_result.value,
                            !.budget_categories =
                                IF reqs[Other(i)].budget_categories # <<>>
                                THEN reqs[Other(i)].budget_categories
                                ELSE get_budget_categories,
                            !.idx = 0,
                            !.pc = "categorize"]]
    /\ UNCHANGED <<env, singleVars>>

\* budget_page of request i, Ok(transactions): the fresh catalog
Pair_Ok(i) ==
    /\ reqs[i].pc = "match"
    /\ reqs[i].transactions_result.ok
    /\ reqs' = [reqs EXCEPT ![i] =
                  [@ EXCEPT !.transactions = reqs[i].transactions_result.value,
                            !.budget_categories = get_budget_categories,
                            !.idx = 0,
                            !.pc = "categorize"]]
    /\ UNCHANGED <<env, singleVars>>

\* budget_page of request i, Err(e): the error page
Pair_Err(i) ==
    /\ reqs[i].pc = "match"
    /\ ~reqs[i].transactions_result.ok
    /\ reqs' = [reqs EXCEPT ![i] =
                  [@ EXCEPT !.http =
                        [status |-> 500, page |-> "error",
                         content |-> <<"<h1>Error Fetching Transactions</h1><p>">>
                                     \o reqs[i].transactions_result.err
                                     \o <<"</p>">>],
                            !.pc = "done"]]
    /\ UNCHANGED <<env, singleVars>>

\* categorize_transactions of request i: one iteration of the loop
Pair_CategorizeStep(i) ==
    /\ reqs[i].pc = "categorize"
    /\ reqs[i].idx < Len(reqs[i].transactions)
    /\ reqs' = [reqs EXCEPT ![i] =
                  [@ EXCEPT !.budget_categories =
                                CategorizeOne(reqs[i].budget_categories,
                                    reqs[i].transactions[reqs[i].idx + 1]),
                            !.idx = @ + 1]]
    /\ UNCHANGED <<env, singleVars>>

\* categorize_transactions of request i returns and the page is rendered
Pair_CategorizeReturn(i) ==
    /\ reqs[i].pc = "categorize"
    /\ reqs[i].idx = Len(reqs[i].transactions)
    /\ reqs' = [reqs EXCEPT ![i] =
                  [@ EXCEPT !.http = [status |-> 200, page |-> "budget",
                                      content |-> reqs[i].budget_categories],
                            !.pc = "done"]]
    /\ UNCHANGED <<env, singleVars>>

NextPair ==
    \E i \in Requesters :
        \/ Pair_Start(i) \/ Pair_Send(i) \/ Pair_Respond(i) \/ Pair_Recv(i)
        \/ Pair_Return(i) \/ Pair_Ok(i) \/ Pair_Err(i)
        \/ Pair_CategorizeStep(i) \/ Pair_CategorizeReturn(i)

\* two requests, the runtime switching between them at every await and,
\* with several workers, anywhere
SpecPair == InitPair /\ [][NextPair]_vars

-----------------------------------------------------------------------------
(* Request isolation *)

\* fetch_transactions run alone on the responses rs: where it stands after
\* the last of them
RECURSIVE AloneFetch(_)
AloneFetch(rs) ==
    IF rs = <<>>
    THEN [pc |-> "loop", transactions |-> <<>>,
          next_page_url |-> PairFirstUrl,
          result |-> NoResult]
    ELSE FT_Step(AloneFetch(SubSeq(rs, 1, Len(rs) - 1)).transactions, Last(rs))

\* what fetch_transactions run alone on rs returns
AloneResult(rs) ==
    IF AloneFetch(rs).pc = "match"
    THEN AloneFetch(rs).result
    ELSE Ok(AloneFetch(rs).transactions)

\* categorize_transactions run alone: the catalog after n transactions
RECURSIVE AloneFold(_, _)
AloneFold(txns, n) ==
    IF n = 0 THEN get_budget_categories
    ELSE CategorizeOne(AloneFold(txns, n - 1), txns[n])

\* the response of budget_page run alone on rs
AloneHttp(rs) ==
    IF AloneResult(rs).ok
    THEN [status |-> 200, page |-> "budget",
          content |-> AloneFold(AloneResult(rs).value, Len(AloneResult(rs).value))]
    ELSE [status |-> 500, page |-> "error",
          content |-> <<"<h1>Error Fetching Transactions</h1><p>">>
                      \o AloneResult(rs).err \o <<"</p>">>]

\* request i stands where it would stand had it run alone on the
\* responses it received
AsAlone(i) ==
    LET r  == reqs[i]
        rs == IF r.pc = "recv" THEN SubSeq(r.received, 1, Len(r.received) - 1)
              ELSE r.received
    IN  /\ r.pc \in {"loop", "await", "recv"} =>
              /\ r.next_page_url = AloneFetch(rs).next_page_url
              /\ r.transactions = AloneFetch(rs).transactions
        /\ r.pc = "match" => r.transactions_result = AloneResult(rs)
        /\ r.pc = "categorize" =>
              /\ r.transactions = AloneResult(rs).value
              /\ r.budget_categories = AloneFold(r.transactions, r.idx)
        /\ r.pc = "done" => r.http = AloneHttp(rs)
        /\ r.pc # "start" => r.api_key = env /\ env # None

====
